---------------------------- MODULE Spec2Model ----------------------------
(***************************************************************************)
(* Scoring engine of the Santander CNPJ dashboard (dashboard_novo.py,      *)
(* rag_system.py, visualizacoes_avancadas.py).                             *)
(*                                                                         *)
(* Numbers.  The Python code works on floats; the model works on exact     *)
(* rationals [t |-> "num", n, d] (d > 0, reduced), plus the two float      *)
(* specials the code can produce: NaN (pandas std() of a one-row series)   *)
(* and +inf (float('inf') runway).  The only irrational quantity, the      *)
(* coefficient of variation std/mean, is truncated to 1/100, which keeps   *)
(* every comparison with the code's thresholds 0.2/0.3/0.4/0.5 exact.      *)
(* Money is counted in thousands of BRL: the code only uses money in       *)
(* ratios and against literal thresholds, which EmMilhares rescales.       *)
(***************************************************************************)
EXTENDS Integers, Sequences, FiniteSets

(* df_infos, df_transacoes, df_analisada : the tables load_data() returns. *)
(* fn, cnpj, ret : the last call or page render and what it produced.      *)
(* cnpj_selecionado : st.session_state's entry of that name (None while    *)
(* the key is missing).  conversation_history : the list kept by the       *)
(* SantanderRAG object of the session.  enviadas : every entry ever handed *)
(* to add_to_history, oldest first (a history variable).                   *)
VARIABLES df_infos, df_transacoes, df_analisada, fn, cnpj, ret,
          cnpj_selecionado, conversation_history, enviadas

vars == <<df_infos, df_transacoes, df_analisada, fn, cnpj, ret,
          cnpj_selecionado, conversation_history, enviadas>>

-----------------------------------------------------------------------------
(* Bounds of the explored inputs *)

MaxMeses == 3

MaxTrans == 2

MaxK == 2

(* calls of add_to_history in one session *)
MaxEnvios == 12

(* questions sent to the assistant in one session *)
MaxPerguntas == 2

-----------------------------------------------------------------------------
(* Float arithmetic as the code uses it *)

Abs(x) == IF x < 0 THEN -x ELSE x

RECURSIVE GCD(_, _)
GCD(a, b) == IF b = 0 THEN a ELSE GCD(b, a % b)

Q(n, d) ==
    LET s == IF d < 0 THEN -1 ELSE 1
        g == GCD(Abs(n), Abs(d))
    IN  [t |-> "num", n |-> (s * n) \div g, d |-> (s * d) \div g]

I(n) == [t |-> "num", n |-> n, d |-> 1]

NaN == [t |-> "nan", n |-> 0, d |-> 1]

Inf == [t |-> "inf", n |-> 1, d |-> 1]

IsNum(a) == a.t = "num"

Add(a, b) ==
    IF a.t = "nan" \/ b.t = "nan" THEN NaN
    ELSE IF a.t = "inf" \/ b.t = "inf" THEN Inf
    ELSE LET g == GCD(a.d, b.d)
         IN  Q(a.n * (b.d \div g) + b.n * (a.d \div g), (a.d \div g) * b.d)

Neg(a) == IF a.t = "num" THEN Q(-a.n, a.d) ELSE NaN

Sub(a, b) == Add(a, Neg(b))

Mul(a, b) ==
    IF a.t = "nan" \/ b.t = "nan" THEN NaN
    ELSE IF a.t = "inf" \/ b.t = "inf" THEN Inf
    ELSE Q(a.n * b.n, a.d * b.d)

(* every comparison with NaN is False; +inf is above every number *)
Lt(a, b) ==
    IF a.t = "nan" \/ b.t = "nan" THEN FALSE
    ELSE IF a.t = "inf" THEN FALSE
    ELSE IF b.t = "inf" THEN TRUE
    ELSE LET g == GCD(a.d, b.d)
         IN  a.n * (b.d \div g) < b.n * (a.d \div g)

Gt(a, b) == Lt(b, a)

Ge(a, b) ==
    IF a.t = "nan" \/ b.t = "nan" THEN FALSE
    ELSE IF a.t = "inf" THEN TRUE
    ELSE IF b.t = "inf" THEN FALSE
    ELSE LET g == GCD(a.d, b.d)
         IN  a.n * (b.d \div g) >= b.n * (a.d \div g)

Le(a, b) == Ge(b, a)

(* Python's builtin max(a, b) / min(a, b): the first argument is kept      *)
(* unless the second compares strictly greater / smaller.                  *)
PyMax(a, b) == IF Gt(b, a) THEN b ELSE a

PyMin(a, b) == IF Lt(b, a) THEN b ELSE a

(* numpy.clip(x, 0, 100) in place of the builtins: a NaN stays a NaN *)
Clip0a100Numpy(x) ==
    IF x.t = "nan" THEN NaN ELSE PyMin(I(100), PyMax(I(0), x))

(* min(max(x, 0), 100) : the arguments the other way round, which lets a  *)
(* NaN through                                                             *)
Clip0a100ArgumentosTrocados(x) == PyMin(PyMax(x, I(0)), I(100))

(* min(100, max(0, x)) *)
Clip0a100(x) == PyMin(I(100), PyMax(I(0), x))

EmMilhares(reais) == reais \div 1000

RECURSIVE ISqrtBusca(_, _, _)
ISqrtBusca(x, lo, hi) ==
    IF lo >= hi THEN lo
    ELSE LET mid == (lo + hi + 1) \div 2
         IN  IF mid * mid <= x THEN ISqrtBusca(x, mid, hi)
             ELSE ISqrtBusca(x, lo, mid - 1)

ISqrt(x) == ISqrtBusca(x, 0, 46340)

RECURSIVE Soma(_)
Soma(s) == IF s = <<>> THEN 0 ELSE s[1] + Soma(Tail(s))

SomaQuadrados(s) == Soma([i \in 1..Len(s) |-> s[i] * s[i]])

-----------------------------------------------------------------------------
(* pandas operations used by the scorers *)

(* df[df['ID'] == cnpj_selecionado] : the rows of one company, file order *)
FiltrarID(infos, c) == SelectSeq(infos, LAMBDA r : r.ID = c)

(* sort_values('DT_REFE') on the rows of one company (periods are unique) *)
SortDtRefe(rows) ==
    [i \in 1..Len(rows) |->
        CHOOSE r \in {rows[j] : j \in 1..Len(rows)} :
            Cardinality({j \in 1..Len(rows) : rows[j].DT_REFE <= r.DT_REFE}) = i]

VlSldo(rows) == [i \in 1..Len(rows) |-> rows[i].VL_SLDO]

(* Series.diff().dropna() *)
Diff(s) == [i \in 1..(Len(s) - 1) |-> s[i + 1] - s[i]]

(* std()/mean() if mean() != 0 else 1 ; std() is the sample deviation      *)
(* (ddof=1), NaN on a single row.  cv^2 = n(n*Sum x^2 - S^2)/((n-1) S^2).   *)
CvSaldo(s) ==
    LET n  == Len(s)
        S  == Soma(s)
        A  == n * (n * SomaQuadrados(s) - S * S)
        B  == (n - 1) * S * S
        sg == IF S < 0 THEN -1 ELSE 1
    IN  IF S = 0 THEN I(1)
        ELSE IF n < 2 THEN NaN
        ELSE Q(sg * ISqrt((10000 * A) \div B), 100)

(* the growth left as a fraction, not a percentage *)
CrescimentoFracao(s) ==
    IF s[1] # 0 THEN Q(s[Len(s)] - s[1], Abs(s[1])) ELSE I(0)

(* ((final - inicial) / abs(inicial)) * 100 if inicial != 0 else 0 *)
Crescimento(s) ==
    IF s[1] # 0 THEN Q(100 * (s[Len(s)] - s[1]), Abs(s[1])) ELSE I(0)

Negativos(d) == SelectSeq(d, LAMBDA x : x < 0)

Positivos(d) == SelectSeq(d, LAMBDA x : x > 0)

(* the mean taken over every delta instead of the negative ones *)
BurnRateTodosDeltas(s) ==
    LET d == Diff(s)
    IN  IF Len(d) > 0 THEN Q(Soma([i \in 1..Len(d) |-> Abs(d[i])]), Len(d))
        ELSE I(0)

(* abs(deltas[deltas < 0].mean()) if len(deltas[deltas < 0]) > 0 else 0 *)
BurnRate(s) ==
    LET neg == Negativos(Diff(s))
    IN  IF Len(neg) > 0 THEN Q(Abs(Soma(neg)), Len(neg)) ELSE I(0)

(* saldo_atual / burn_rate if burn_rate > 0 else float('inf') *)
Runway(saldo_atual, burn_rate) ==
    IF Gt(burn_rate, I(0)) THEN Q(saldo_atual * burn_rate.d, burn_rate.n)
    ELSE Inf

-----------------------------------------------------------------------------
(* calcular_momento_vida *)

(* rules 2 and 3 exchanged *)
ClassificarMomentoReordenado(idade_meses, crescimento_saldo, cv_saldo) ==
    IF idade_meses <= 2
        THEN [momento |-> "Iniciante", score |-> 20]
    ELSE IF Gt(crescimento_saldo, I(0)) /\ Lt(cv_saldo, Q(5, 10))
        THEN [momento |-> "Madura", score |-> 60]
    ELSE IF Gt(crescimento_saldo, I(20)) /\ Lt(cv_saldo, Q(3, 10))
        THEN [momento |-> "Desenvolvimento", score |-> 80]
    ELSE IF Lt(crescimento_saldo, I(-10))
        THEN [momento |-> "Declinio", score |-> 20]
    ELSE [momento |-> "Madura", score |-> 50]

(* the age rule tested with idade_meses <= 0 *)
ClassificarMomentoIdadeZero(idade_meses, crescimento_saldo, cv_saldo) ==
    IF idade_meses <= 0
        THEN [momento |-> "Iniciante", score |-> 20]
    ELSE IF Gt(crescimento_saldo, I(20)) /\ Lt(cv_saldo, Q(3, 10))
        THEN [momento |-> "Desenvolvimento", score |-> 80]
    ELSE IF Gt(crescimento_saldo, I(0)) /\ Lt(cv_saldo, Q(5, 10))
        THEN [momento |-> "Madura", score |-> 60]
    ELSE IF Lt(crescimento_saldo, I(-10))
        THEN [momento |-> "Declinio", score |-> 20]
    ELSE [momento |-> "Madura", score |-> 50]

(* the decision ladder, first matching rule wins *)
ClassificarMomento(idade_meses, crescimento_saldo, cv_saldo) ==
    IF idade_meses <= 2
        THEN [momento |-> "Iniciante", score |-> 20]
    ELSE IF Gt(crescimento_saldo, I(20)) /\ Lt(cv_saldo, Q(3, 10))
        THEN [momento |-> "Desenvolvimento", score |-> 80]
    ELSE IF Gt(crescimento_saldo, I(0)) /\ Lt(cv_saldo, Q(5, 10))
        THEN [momento |-> "Madura", score |-> 60]
    ELSE IF Lt(crescimento_saldo, I(-10))
        THEN [momento |-> "Declinio", score |-> 20]
    ELSE [momento |-> "Madura", score |-> 50]

(* the guard for an id without rows left out: age 0 falls into rule 1 *)
calcular_momento_vida_SemGuarda(infos, c) ==
    LET dados_cnpj == FiltrarID(infos, c)
        s          == VlSldo(dados_cnpj)
    IN  IF Len(dados_cnpj) = 0
        THEN ClassificarMomento(0, I(0), I(1))
        ELSE ClassificarMomento(Len(dados_cnpj), Crescimento(s), CvSaldo(s))

calcular_momento_vida(infos, c) ==
    LET dados_cnpj        == FiltrarID(infos, c)
        s                 == VlSldo(dados_cnpj)
        idade_meses       == Len(dados_cnpj)
        crescimento_saldo == Crescimento(s)
        cv_saldo          == CvSaldo(s)
    IN  IF Len(dados_cnpj) = 0 THEN [momento |-> "N/A", score |-> 0]
        ELSE ClassificarMomento(idade_meses, crescimento_saldo, cv_saldo)

-----------------------------------------------------------------------------
(* calcular_saude_empresa *)

CategoriaSaude(score_final) ==
    IF Ge(score_final, I(80)) THEN "Alta"
    ELSE IF Ge(score_final, I(60)) THEN "Media"
    ELSE "Baixa"

(* the balance position multiplied by 2, the factor before it was cut to   *)
(* 0.5                                                                     *)
calcular_saude_empresa_PosicaoVezes2(infos, trans, c) ==
    LET dados_cnpj   == FiltrarID(infos, c)
        s            == VlSldo(dados_cnpj)
        saldo_atual  == s[Len(s)]
        crescimento  == Crescimento(s)
        score_crescimento  == Clip0a100(Add(I(50), Mul(crescimento, I(2))))
        cv_saldo     == CvSaldo(s)
        score_estabilidade == Clip0a100(Sub(I(100), Mul(cv_saldo, I(100))))
        faturamento  == dados_cnpj[1].VL_FATU
        ratio_saldo_fatu   == IF faturamento # 0
                                 THEN Q(100 * saldo_atual, faturamento)
                                 ELSE I(0)
        score_posicao      == Clip0a100(Mul(ratio_saldo_fatu, I(2)))
        deltas       == Diff(s)
        score_tendencia    == IF Len(dados_cnpj) > 1
                                 THEN Q(100 * Len(Positivos(deltas)), Len(deltas))
                                 ELSE I(50)
        score_final  == Clip0a100(
                            Add(Add(Mul(score_crescimento, Q(3, 10)),
                                    Mul(score_estabilidade, Q(25, 100))),
                                Add(Mul(score_posicao, Q(25, 100)),
                                    Mul(score_tendencia, Q(2, 10)))))
    IN  IF Len(dados_cnpj) = 0
        THEN [score_final |-> I(0), categoria |-> "N/A"]
        ELSE [score_final |-> score_final,
              categoria |-> CategoriaSaude(score_final),
              score_crescimento |-> score_crescimento,
              score_estabilidade |-> score_estabilidade,
              score_posicao |-> score_posicao,
              score_tendencia |-> score_tendencia]

calcular_saude_empresa(infos, trans, c) ==
    LET dados_cnpj   == FiltrarID(infos, c)
        s            == VlSldo(dados_cnpj)
        saldo_atual  == s[Len(s)]
        crescimento  == Crescimento(s)
        score_crescimento  == Clip0a100(Add(I(50), Mul(crescimento, I(2))))
        cv_saldo     == CvSaldo(s)
        score_estabilidade == Clip0a100(Sub(I(100), Mul(cv_saldo, I(100))))
        faturamento  == dados_cnpj[1].VL_FATU
        ratio_saldo_fatu   == IF faturamento # 0
                                 THEN Q(100 * saldo_atual, faturamento)
                                 ELSE I(0)
        score_posicao      == Clip0a100(Mul(ratio_saldo_fatu, Q(1, 2)))
        deltas       == Diff(s)
        score_tendencia    == IF Len(dados_cnpj) > 1
                                 THEN Q(100 * Len(Positivos(deltas)), Len(deltas))
                                 ELSE I(50)
        score_final  == Clip0a100(
                            Add(Add(Mul(score_crescimento, Q(3, 10)),
                                    Mul(score_estabilidade, Q(25, 100))),
                                Add(Mul(score_posicao, Q(25, 100)),
                                    Mul(score_tendencia, Q(2, 10)))))
    IN  IF Len(dados_cnpj) = 0
        THEN [score_final |-> I(0), categoria |-> "N/A"]
        ELSE [score_final |-> score_final,
              categoria |-> CategoriaSaude(score_final),
              score_crescimento |-> score_crescimento,
              score_estabilidade |-> score_estabilidade,
              score_posicao |-> score_posicao,
              score_tendencia |-> score_tendencia]

-----------------------------------------------------------------------------
(* The transaction ledger *)

Pagamentos(trans, c) == SelectSeq(trans, LAMBDA r : r.ID_PGTO = c)

Recebimentos(trans, c) == SelectSeq(trans, LAMBDA r : r.ID_RCBE = c)

Coluna(rows, campo) == {rows[i][campo] : i \in 1..Len(rows)}

RECURSIVE Ordenado(_)
Ordenado(S) ==
    IF S = {} THEN <<>>
    ELSE LET m == CHOOSE x \in S : \A y \in S : x <= y
         IN  <<m>> \o Ordenado(S \ {m})

SomaVL(rows) == Soma([i \in 1..Len(rows) |-> rows[i].VL])

(* rows.groupby(campo)['VL'].sum().values : one sum per key, keys ascending *)
GroupBySum(rows, campo) ==
    LET chaves == Ordenado(Coluna(rows, campo))
    IN  [i \in 1..Len(chaves) |->
            SomaVL(SelectSeq(rows, LAMBDA r : r[campo] = chaves[i]))]

(* the total == 0 guard left out: the shares are 0/0 *)
calculate_hhi_SemGuardaTotal(values) ==
    LET total == Soma(values)
    IN  IF Len(values) = 0 THEN I(0)
        ELSE IF total = 0 THEN NaN
        ELSE Q(SomaQuadrados(values), total * total)

(* the shares summed without being squared *)
calculate_hhi_SemQuadrado(values) ==
    LET total == Soma(values)
    IN  IF Len(values) = 0 THEN I(0)
        ELSE IF total = 0 THEN I(0)
        ELSE Q(Soma(values), total)

(* the squares divided by the total instead of by its square *)
calculate_hhi_TotalSimples(values) ==
    LET total == Soma(values)
    IN  IF Len(values) = 0 THEN I(0)
        ELSE IF total = 0 THEN I(0)
        ELSE Q(SomaQuadrados(values), total)

calculate_hhi(values) ==
    LET total == Soma(values)
    IN  IF Len(values) = 0 THEN I(0)
        ELSE IF total = 0 THEN I(0)
        ELSE Q(SomaQuadrados(values), total * total)

HhiMedio(trans, c) ==
    LET hhi_pagamento   == calculate_hhi(GroupBySum(Pagamentos(trans, c), "ID_RCBE"))
        hhi_recebimento == calculate_hhi(GroupBySum(Recebimentos(trans, c), "ID_PGTO"))
    IN  Mul(Add(hhi_pagamento, hhi_recebimento), Q(1, 2))

NumParceiros(trans, c) ==
    Cardinality(Coluna(Pagamentos(trans, c), "ID_RCBE")
                \cup Coluna(Recebimentos(trans, c), "ID_PGTO"))

VolumeTotal(trans, c) ==
    SomaVL(Pagamentos(trans, c)) + SomaVL(Recebimentos(trans, c))

-----------------------------------------------------------------------------
(* calcular_risco_dependencia *)

CategoriaRisco(score_final) ==
    IF Ge(score_final, I(70)) THEN "Alto"
    ELSE IF Ge(score_final, I(40)) THEN "Medio"
    ELSE "Baixo"

(* the volume score not inverted: more volume, more risk *)
ScoreFinalRiscoVolumeDireto(hhi_medio, num_parceiros, volume_total) ==
    LET score_hhi       == Mul(hhi_medio, I(100))
        score_parceiros == Clip0a100(I(100 - num_parceiros * 3))
        score_volume    == Clip0a100(Q(volume_total, EmMilhares(100000)))
    IN  Clip0a100(Add(Add(Mul(score_hhi, Q(5, 10)),
                          Mul(score_parceiros, Q(3, 10))),
                      Mul(score_volume, Q(2, 10))))

(* lines 256-262: the three component scores and their weighted sum *)
ScoreFinalRisco(hhi_medio, num_parceiros, volume_total) ==
    LET score_hhi       == Mul(hhi_medio, I(100))
        score_parceiros == Clip0a100(I(100 - num_parceiros * 3))
        score_volume    == Clip0a100(Sub(I(100),
                               Q(volume_total, EmMilhares(100000))))
    IN  Clip0a100(Add(Add(Mul(score_hhi, Q(5, 10)),
                          Mul(score_parceiros, Q(3, 10))),
                      Mul(score_volume, Q(2, 10))))

calcular_risco_dependencia(trans, c) ==
    LET transacoes_cnpj == SelectSeq(trans,
                              LAMBDA r : r.ID_PGTO = c \/ r.ID_RCBE = c)
        hhi_medio       == HhiMedio(transacoes_cnpj, c)
        num_parceiros   == NumParceiros(transacoes_cnpj, c)
        volume_total    == VolumeTotal(transacoes_cnpj, c)
        score_final     == ScoreFinalRisco(hhi_medio, num_parceiros,
                                           volume_total)
    IN  IF Len(transacoes_cnpj) = 0
        THEN [score_final |-> I(0), categoria |-> "N/A"]
        ELSE [score_final |-> score_final,
              categoria |-> CategoriaRisco(score_final),
              hhi_medio |-> hhi_medio,
              num_parceiros |-> num_parceiros,
              volume_total |-> volume_total]

-----------------------------------------------------------------------------
(* calcular_score_santander *)

(* the rules tested from the weakest condition up *)
ScoreLiquidezDeBaixoParaCima(saldo_atual, runway) ==
    IF saldo_atual > 0 /\ Gt(runway, I(3)) THEN 10
    ELSE IF saldo_atual > 0 /\ Gt(runway, I(6)) THEN 15
    ELSE IF saldo_atual > 0 /\ Gt(runway, I(12)) THEN 20
    ELSE IF saldo_atual > 0 THEN 5
    ELSE 0

ScoreLiquidez(saldo_atual, runway) ==
    IF saldo_atual > 0 /\ Gt(runway, I(12)) THEN 20
    ELSE IF saldo_atual > 0 /\ Gt(runway, I(6)) THEN 15
    ELSE IF saldo_atual > 0 /\ Gt(runway, I(3)) THEN 10
    ELSE IF saldo_atual > 0 THEN 5
    ELSE 0

ScoreRelacionamentos(num_relacionamentos, hhi_medio) ==
    IF num_relacionamentos > 20 /\ Lt(hhi_medio, Q(3, 10)) THEN 20
    ELSE IF num_relacionamentos > 15 /\ Lt(hhi_medio, Q(5, 10)) THEN 15
    ELSE IF num_relacionamentos > 10 /\ Lt(hhi_medio, Q(7, 10)) THEN 10
    ELSE IF num_relacionamentos > 5 THEN 5
    ELSE 0

(* >= in place of > in the fallback rule *)
ScoreTendenciasFallbackMaiorIgual(variacao_saldo, saldo_atual, cv_saldo) ==
    IF variacao_saldo > 0 /\ Lt(cv_saldo, Q(2, 10)) THEN 20
    ELSE IF variacao_saldo > 0 /\ Lt(cv_saldo, Q(4, 10)) THEN 15
    ELSE IF variacao_saldo > 0 THEN 10
    ELSE IF Ge(I(variacao_saldo), Q(-saldo_atual, 10)) THEN 5
    ELSE 0

ScoreTendencias(variacao_saldo, saldo_atual, cv_saldo) ==
    IF variacao_saldo > 0 /\ Lt(cv_saldo, Q(2, 10)) THEN 20
    ELSE IF variacao_saldo > 0 /\ Lt(cv_saldo, Q(4, 10)) THEN 15
    ELSE IF variacao_saldo > 0 THEN 10
    ELSE IF Gt(I(variacao_saldo), Q(-saldo_atual, 10)) THEN 5
    ELSE 0

ScoreAtividade(volume_total, idade_meses) ==
    IF volume_total > EmMilhares(1000000) /\ idade_meses >= 4 THEN 20
    ELSE IF volume_total > EmMilhares(500000) /\ idade_meses >= 3 THEN 15
    ELSE IF volume_total > EmMilhares(100000) /\ idade_meses >= 2 THEN 10
    ELSE IF volume_total > 0 THEN 5
    ELSE 0

(* the last rule of the ladder with >= in place of > *)
ScoreRiscoSaldoNaoNegativo(saldo_atual, burn_rate, cv_saldo) ==
    IF saldo_atual > 0 /\ Lt(burn_rate, Q(saldo_atual, 10))
          /\ Lt(cv_saldo, Q(3, 10)) THEN 20
    ELSE IF saldo_atual > 0 /\ Lt(burn_rate, Q(2 * saldo_atual, 10))
          /\ Lt(cv_saldo, Q(5, 10)) THEN 15
    ELSE IF saldo_atual > 0 /\ Lt(burn_rate, Q(3 * saldo_atual, 10)) THEN 10
    ELSE IF saldo_atual >= 0 THEN 5
    ELSE 0

(* the first rule with the burn limit of the third (30% of the balance) *)
ScoreRiscoPrimeiroLimite30(saldo_atual, burn_rate, cv_saldo) ==
    IF saldo_atual > 0 /\ Lt(burn_rate, Q(3 * saldo_atual, 10))
          /\ Lt(cv_saldo, Q(3, 10)) THEN 20
    ELSE IF saldo_atual > 0 /\ Lt(burn_rate, Q(2 * saldo_atual, 10))
          /\ Lt(cv_saldo, Q(5, 10)) THEN 15
    ELSE IF saldo_atual > 0 /\ Lt(burn_rate, Q(3 * saldo_atual, 10)) THEN 10
    ELSE IF saldo_atual > 0 THEN 5
    ELSE 0

ScoreRisco(saldo_atual, burn_rate, cv_saldo) ==
    IF saldo_atual > 0 /\ Lt(burn_rate, Q(saldo_atual, 10))
          /\ Lt(cv_saldo, Q(3, 10)) THEN 20
    ELSE IF saldo_atual > 0 /\ Lt(burn_rate, Q(2 * saldo_atual, 10))
          /\ Lt(cv_saldo, Q(5, 10)) THEN 15
    ELSE IF saldo_atual > 0 /\ Lt(burn_rate, Q(3 * saldo_atual, 10)) THEN 10
    ELSE IF saldo_atual > 0 THEN 5
    ELSE 0

(* a total that leaves the Risco tier out *)
ScoreTotalSemRisco(liquidez, relacionamentos, tendencias, atividade, risco) ==
    liquidez + relacionamentos + tendencias + atividade

ScoreTotal(liquidez, relacionamentos, tendencias, atividade, risco) ==
    liquidez + relacionamentos + tendencias + atividade + risco

calcular_score_santander(infos, trans, c) ==
    LET dados_cnpj     == FiltrarID(infos, c)
        s              == VlSldo(dados_cnpj)
        idade_meses    == Len(dados_cnpj)
        saldo_atual    == s[Len(s)]
        saldo_inicial  == s[1]
        variacao_saldo == saldo_atual - saldo_inicial
        burn_rate      == BurnRate(s)
        runway         == Runway(saldo_atual, burn_rate)
        hhi_medio      == HhiMedio(trans, c)
        num_relacionamentos == NumParceiros(trans, c)
        volume_total   == VolumeTotal(trans, c)
        cv_saldo       == CvSaldo(s)
        score_liquidez        == ScoreLiquidez(saldo_atual, runway)
        score_relacionamentos == ScoreRelacionamentos(num_relacionamentos, hhi_medio)
        score_tendencias      == ScoreTendencias(variacao_saldo, saldo_atual, cv_saldo)
        score_atividade       == ScoreAtividade(volume_total, idade_meses)
        score_risco           == ScoreRisco(saldo_atual, burn_rate, cv_saldo)
        score_total    == ScoreTotal(score_liquidez, score_relacionamentos,
                                     score_tendencias, score_atividade,
                                     score_risco)
    IN  IF Len(dados_cnpj) = 0
        THEN [score_total |-> 0, detalhamento |-> <<>>]
        ELSE [score_total |-> score_total,
              detalhamento |->
                  [Liquidez |-> score_liquidez,
                   Relacionamentos |-> score_relacionamentos,
                   Tendencias |-> score_tendencias,
                   Atividade |-> score_atividade,
                   Risco |-> score_risco,
                   Total |-> score_total],
              burn_rate |-> burn_rate,
              runway |-> runway]

-----------------------------------------------------------------------------
(* analise_individual : liquidity indicators computed from the balance     *)
(* series returned by create_saldo_progress_chart (sorted by DT_REFE)      *)

(* the runway threshold of the liquidity-risk ladder (6) used for the flag *)
FlagStressCaixaLimite6(saldo_atual, burn_rate_mes, runway_meses) ==
    \/ saldo_atual < 0
    \/ Lt(runway_meses, I(6))
    \/ Gt(burn_rate_mes, Q(saldo_atual, 2))

(* a third disjunct at a tenth of the balance *)
FlagStressCaixaUmDecimo(saldo_atual, burn_rate_mes, runway_meses) ==
    \/ saldo_atual < 0
    \/ Lt(runway_meses, I(3))
    \/ Gt(burn_rate_mes, Q(saldo_atual, 10))

FlagStressCaixa(saldo_atual, burn_rate_mes, runway_meses) ==
    \/ saldo_atual < 0
    \/ Lt(runway_meses, I(3))
    \/ Gt(burn_rate_mes, Q(saldo_atual, 2))

analise_individual_liquidez(infos, c) ==
    LET dados_saldo   == SortDtRefe(FiltrarID(infos, c))
        s             == VlSldo(dados_saldo)
        saldo_atual   == s[Len(s)]
        burn_rate_mes == BurnRate(s)
        runway_meses  == Runway(saldo_atual, burn_rate_mes)
        flag_stress_caixa ==
            FlagStressCaixa(saldo_atual, burn_rate_mes, runway_meses)
    IN  [saldo_atual |-> saldo_atual,
         burn_rate_mes |-> burn_rate_mes,
         runway_meses |-> runway_meses,
         flag_stress_caixa |-> flag_stress_caixa]

-----------------------------------------------------------------------------
(* dashboard_geral: the cohorts of the latest month of Base_Analisada.csv. *)
(* A pandas comparison with NaN is False; isna() is True for NaN only.     *)

MesMax(analisada) ==
    IF Len(analisada) = 0
    THEN 0
    ELSE CHOOSE m \in {analisada[i].MES : i \in 1..Len(analisada)} :
             \A i \in 1..Len(analisada) : analisada[i].MES <= m

UltimoMesData(analisada) ==
    SelectSeq(analisada, LAMBDA r : r.MES = MesMax(analisada))

(* runway_meses > 1 in place of >= 1 *)
EmpresasIdeaisRunwayEstrito(ultimo_mes_data) ==
    SelectSeq(ultimo_mes_data, LAMBDA r :
        /\ Ge(r.score_saude_model_0_100_lgbm, r.q25_health)
        /\ Lt(r.score_dependencia_risco_0_100, r.q75_risk)
        /\ Gt(r.runway_meses, I(1))
        /\ r.flag_stress_caixa = 0
        /\ Gt(r.grow_volume_total_mes, I(0))
        /\ r.estado_maturidade_hard \in {"Madura", "Desenvolvimento"})

EmpresasIdeais(ultimo_mes_data) ==
    SelectSeq(ultimo_mes_data, LAMBDA r :
        /\ Ge(r.score_saude_model_0_100_lgbm, r.q25_health)
        /\ Lt(r.score_dependencia_risco_0_100, r.q75_risk)
        /\ Ge(r.runway_meses, I(1))
        /\ r.flag_stress_caixa = 0
        /\ Gt(r.grow_volume_total_mes, I(0))
        /\ r.estado_maturidade_hard \in {"Madura", "Desenvolvimento"})

(* the isna() alternative of the runway test left out *)
EmpresasPerigosasSemIsna(ultimo_mes_data) ==
    SelectSeq(ultimo_mes_data, LAMBDA r :
        /\ Le(r.score_saude_model_0_100_lgbm, r.q25_health)
        /\ Ge(r.score_dependencia_risco_0_100, r.q75_risk)
        /\ Lt(r.runway_meses, I(3))
        /\ r.flag_stress_caixa = 1
        /\ Lt(r.grow_volume_total_mes, I(0))
        /\ r.estado_maturidade_hard \in {"Declinio", "Declinio Persistente"})

(* a row that passes any one of the six tests *)
EmpresasPerigosasQualquerTeste(ultimo_mes_data) ==
    SelectSeq(ultimo_mes_data, LAMBDA r :
        \/ Le(r.score_saude_model_0_100_lgbm, r.q25_health)
        \/ Ge(r.score_dependencia_risco_0_100, r.q75_risk)
        \/ (Lt(r.runway_meses, I(3)) \/ r.runway_meses = NaN)
        \/ r.flag_stress_caixa = 1
        \/ Lt(r.grow_volume_total_mes, I(0))
        \/ r.estado_maturidade_hard \in {"Declinio", "Declinio Persistente"})

EmpresasPerigosas(ultimo_mes_data) ==
    SelectSeq(ultimo_mes_data, LAMBDA r :
        /\ Le(r.score_saude_model_0_100_lgbm, r.q25_health)
        /\ Ge(r.score_dependencia_risco_0_100, r.q75_risk)
        /\ (Lt(r.runway_meses, I(3)) \/ r.runway_meses = NaN)
        /\ r.flag_stress_caixa = 1
        /\ Lt(r.grow_volume_total_mes, I(0))
        /\ r.estado_maturidade_hard \in {"Declinio", "Declinio Persistente"})

dashboard_geral(analisada) ==
    LET ultimo_mes_data == UltimoMesData(analisada)
    IN  [empresas_ideais    |-> EmpresasIdeais(ultimo_mes_data),
         empresas_perigosas |-> EmpresasPerigosas(ultimo_mes_data)]

-----------------------------------------------------------------------------
(* rag_system.py: SantanderRAG.prepare_context, the metrics it derives by  *)
(* itself for the context of the chat                                      *)

(* Python's None; company ids are not 0 *)
None == 0

(* one iteration of the loop over the companies of highest revenue: the   *)
(* rows are sorted by DT_REFE, the relationships are counted over both     *)
(* columns of the company's transactions                                   *)
PrepareContextTop(infos, trans, cnpj_id) ==
    LET dados_cnpj      == SortDtRefe(FiltrarID(infos, cnpj_id))
        s               == VlSldo(dados_cnpj)
        saldo_atual     == s[Len(s)]
        transacoes_cnpj == SelectSeq(trans,
                              LAMBDA r : r.ID_PGTO = cnpj_id \/ r.ID_RCBE = cnpj_id)
        burn_rate       == BurnRate(s)
    IN  [saldo_atual         |-> saldo_atual,
         variacao_saldo      |-> saldo_atual - s[1],
         cv_saldo            |-> CvSaldo(s),
         num_relacionamentos |->
             Cardinality(Coluna(transacoes_cnpj, "ID_PGTO")
                         \cup Coluna(transacoes_cnpj, "ID_RCBE")),
         volume_transacoes   |-> SomaVL(transacoes_cnpj),
         hhi_medio           |-> HhiMedio(transacoes_cnpj, cnpj_id),
         burn_rate           |-> burn_rate,
         runway              |-> Runway(saldo_atual, burn_rate)]

(* the section "ANALISE ESPECIFICA DO CNPJ": only for a truthy             *)
(* cnpj_selecionado that has rows; <<>> stands for no section              *)
PrepareContextEspecifico(infos, trans, cnpj_sel) ==
    LET dados_cnpj      == FiltrarID(infos, cnpj_sel)
        s               == VlSldo(dados_cnpj)
        saldo_atual     == s[Len(s)]
        transacoes_cnpj == SelectSeq(trans,
                              LAMBDA r : r.ID_PGTO = cnpj_sel \/ r.ID_RCBE = cnpj_sel)
        pagamentos      == Pagamentos(transacoes_cnpj, cnpj_sel)
        recebimentos    == Recebimentos(transacoes_cnpj, cnpj_sel)
        saldo_inicial   == VlSldo(SortDtRefe(dados_cnpj))[1]
        burn_rate       == BurnRate(s)
    IN  IF cnpj_sel = None \/ Len(dados_cnpj) = 0
        THEN <<>>
        ELSE [cnpj                |-> cnpj_sel,
              saldo_atual         |-> saldo_atual,
              idade_meses         |-> Len(dados_cnpj),
              variacao_total      |-> saldo_atual - saldo_inicial,
              num_pagamentos      |-> Cardinality(Coluna(pagamentos, "ID_RCBE")),
              num_recebimentos    |-> Cardinality(Coluna(recebimentos, "ID_PGTO")),
              volume_pagamentos   |-> SomaVL(pagamentos),
              volume_recebimentos |-> SomaVL(recebimentos),
              hhi_medio           |-> HhiMedio(transacoes_cnpj, cnpj_sel),
              burn_rate           |-> burn_rate,
              runway              |-> Runway(saldo_atual, burn_rate)]

(* the companies the loop visits: the 10 of highest revenue, which is all  *)
(* of them in a table of at most 10 companies                              *)
TopCnpjs(infos) == {infos[i].ID : i \in 1..Len(infos)}

prepare_context(infos, trans, cnpj_sel) ==
    [top        |-> [c \in TopCnpjs(infos) |-> PrepareContextTop(infos, trans, c)],
     especifico |-> PrepareContextEspecifico(infos, trans, cnpj_sel)]

(* SantanderRAG.add_to_history: the entry is appended and only the last 10 *)
(* entries are kept                                                        *)
Entrada(timestamp, question, answer) ==
    [timestamp |-> timestamp, question |-> question, answer |-> answer]

(* conversation_history[:10] in place of [-10:] *)
add_to_history_Primeiras10(history, entrada) ==
    LET h == Append(history, entrada)
    IN  IF Len(h) > 10 THEN SubSeq(h, 1, 10) ELSE h

add_to_history(history, entrada) ==
    LET h == Append(history, entrada)
    IN  IF Len(h) > 10 THEN SubSeq(h, Len(h) - 9, Len(h)) ELSE h

-----------------------------------------------------------------------------
(* The snapshots load_data() can hand to the scorers.  A row of df_infos   *)
(* is [ID, DT_REFE, VL_SLDO, VL_FATU] with one row per (ID, DT_REFE) and   *)
(* one VL_FATU per ID; a row of df_transacoes is [ID_PGTO, ID_RCBE, VL].   *)
(* Company 3 never has a monthly record.  Ledgers are enumerated up to     *)
(* row order, which no reader depends on (groupby, sum, unique).           *)

CNPJS == {1, 2, 3}

SALDOS == {-10, 0, 10, 13}

VALORES == {0, 1, 2}

Series == UNION {[1..n -> SALDOS] : n \in 0..MaxMeses}

LinhasDe(c, serie, fatu, ordem) ==
    [i \in 1..Len(serie) |->
        [ID |-> c,
         DT_REFE |-> IF ordem = "asc" THEN i ELSE Len(serie) + 1 - i,
         VL_SLDO |-> serie[i],
         VL_FATU |-> fatu]]

OutraEmpresa == <<[ID |-> 2, DT_REFE |-> 1, VL_SLDO |-> -10, VL_FATU |-> 0]>>

InfosRicos == {OutraEmpresa \o LinhasDe(1, s, 50, "asc") : s \in Series}

Cenario == LinhasDe(1, <<100, 110, 121>>, 500, "asc")

InfosPoucos ==
    { <<>>,
      Cenario,
      LinhasDe(1, <<121, 110, 100>>, 500, "desc"),
      OutraEmpresa \o LinhasDe(1, <<11, 10, 20>>, 50, "asc"),
      LinhasDe(1, <<11, 10>>, 5, "asc"),
      LinhasDe(1, <<20, 10>>, 50, "desc"),
      LinhasDe(1, <<10, 13, 20>>, 0, "asc"),
      LinhasDe(1, <<10, 11, 13, 20>>, 5, "asc"),
      LinhasDe(1, <<105, 121, 100>>, 500, "asc") }

Pares == {<<1, 2>>, <<1, 3>>, <<2, 1>>}

TiposLinha ==
    {[ID_PGTO |-> p[1], ID_RCBE |-> p[2], VL |-> v] : p \in Pares, v \in VALORES}

Chave(r) == r.ID_PGTO * 100 + r.ID_RCBE * 10 + r.VL

RECURSIVE LedgersAte(_)
LedgersAte(n) ==
    IF n = 0 THEN {<<>>}
    ELSE LET menores == LedgersAte(n - 1)
         IN  menores \cup
             {Append(x[1], x[2]) : x \in
                 {y \in menores \X TiposLinha :
                     /\ Len(y[1]) = n - 1
                     /\ (n = 1 \/ Chave(y[1][n - 1]) <= Chave(y[2]))}}

(* company 1 pays k counterparties (v1 to the first, v to the others) and, *)
(* when ambos, receives the same amounts back                              *)
Estrela(k, v1, v, ambos) ==
    LET pag == [i \in 1..k |->
                  [ID_PGTO |-> 1, ID_RCBE |-> 1 + i,
                   VL |-> IF i = 1 THEN v1 ELSE v]]
        rec == [i \in 1..k |->
                  [ID_PGTO |-> 1 + i, ID_RCBE |-> 1,
                   VL |-> IF i = 1 THEN v1 ELSE v]]
    IN  IF ambos THEN pag \o rec ELSE pag

Estrelas ==
    { Estrela(6, 50, 50, FALSE),
      Estrela(11, 50, 50, TRUE),
      Estrela(16, 200, 1, FALSE),
      Estrela(21, 50, 50, FALSE),
      Estrela(21, 200, 1, TRUE),
      Estrela(1, 3000, 0, FALSE),
      Estrela(1, 3000, 0, TRUE) }

LedgersRicos == LedgersAte(MaxTrans)

(* Base_Analisada.csv: one row per company and month, with the columns     *)
(* the cohort filters of dashboard_geral read                              *)
ESTADOS ==
    {"Iniciante", "Desenvolvimento", "Madura", "Declinio",
     "Declinio Persistente"}

LinhaAnalisada(id, mes, saude, risco, runway, flag, grow, estado) ==
    [ID |-> id, MES |-> mes,
     score_saude_model_0_100_lgbm |-> saude, q25_health |-> I(50),
     score_dependencia_risco_0_100 |-> risco, q75_risk |-> I(70),
     runway_meses |-> runway, flag_stress_caixa |-> flag,
     grow_volume_total_mes |-> grow, estado_maturidade_hard |-> estado]

(* the rows of the latest month: every combination of health, risk, runway *)
(* and growth around the thresholds, numbered from 1                       *)
LinhasUltimoMes(flag, estado) ==
    LET saudes  == <<I(40), I(50), I(60)>>
        riscos  == <<I(60), I(70), I(80)>>
        runways == <<NaN, I(0), I(1), I(3)>>
        grows   == <<I(-1), I(0), I(1)>>
    IN  [i \in 1..108 |->
            LinhaAnalisada(i, 2,
                           saudes[((i - 1) % 3) + 1],
                           riscos[(((i - 1) \div 3) % 3) + 1],
                           runways[(((i - 1) \div 9) % 4) + 1],
                           flag,
                           grows[((i - 1) \div 36) + 1],
                           estado)]

(* two rows of an earlier month that pass one filter each *)
LinhasMesAnterior ==
    << LinhaAnalisada(1, 1, I(60), I(60), I(3), 0, I(1), "Madura"),
       LinhaAnalisada(2, 1, I(40), I(80), NaN, 1, I(-1), "Declinio") >>

(* a latest month where companies without stress in a mature stage and     *)
(* companies under stress in decline appear together                       *)
LinhasMistas ==
    LET calmas   == LinhasUltimoMes(0, "Madura")
        aflitas  == LinhasUltimoMes(1, "Declinio")
    IN  calmas \o [i \in 1..Len(aflitas) |->
                      [aflitas[i] EXCEPT !.ID = Len(calmas) + i]]

Analisadas ==
    {LinhasMesAnterior \o LinhasUltimoMes(flag, estado) :
        flag \in {0, 1}, estado \in ESTADOS}
    \cup {LinhasMesAnterior \o LinhasMistas}

-----------------------------------------------------------------------------
(* State machine: a loaded snapshot and the last scorer call on it *)

Init ==
    /\ \/ /\ df_infos \in InfosRicos \cup InfosPoucos
          /\ df_transacoes = <<>>
          /\ df_analisada = <<>>
       \/ /\ df_infos \in InfosPoucos
          /\ df_transacoes \in Estrelas
          /\ df_analisada = <<>>
       \/ /\ df_infos = Cenario
          /\ df_transacoes \in LedgersRicos
          /\ df_analisada = <<>>
       \/ /\ df_infos = Cenario
          /\ df_transacoes = <<>>
          /\ df_analisada \in Analisadas
    /\ fn = "load_data"
    /\ cnpj = 0
    /\ ret = <<>>
    /\ cnpj_selecionado = None
    /\ conversation_history = <<>>
    /\ enviadas = <<>>

(* the filtered frame assigned back to the shared table *)
CalcularMomentoVidaFiltraNoLugar(c) ==
    /\ fn' = "calcular_momento_vida"
    /\ cnpj' = c
    /\ ret' = calcular_momento_vida(df_infos, c)
    /\ df_infos' = FiltrarID(df_infos, c)
    /\ UNCHANGED <<df_transacoes, df_analisada>>
    /\ UNCHANGED <<cnpj_selecionado, conversation_history, enviadas>>

CalcularMomentoVida(c) ==
    /\ fn' = "calcular_momento_vida"
    /\ cnpj' = c
    /\ ret' = calcular_momento_vida(df_infos, c)
    /\ UNCHANGED <<df_infos, df_transacoes, df_analisada>>
    /\ UNCHANGED <<cnpj_selecionado, conversation_history, enviadas>>

CalcularSaudeEmpresa(c) ==
    /\ fn' = "calcular_saude_empresa"
    /\ cnpj' = c
    /\ ret' = calcular_saude_empresa(df_infos, df_transacoes, c)
    /\ UNCHANGED <<df_infos, df_transacoes, df_analisada>>
    /\ UNCHANGED <<cnpj_selecionado, conversation_history, enviadas>>

CalcularRiscoDependencia(c) ==
    /\ fn' = "calcular_risco_dependencia"
    /\ cnpj' = c
    /\ ret' = calcular_risco_dependencia(df_transacoes, c)
    /\ UNCHANGED <<df_infos, df_transacoes, df_analisada>>
    /\ UNCHANGED <<cnpj_selecionado, conversation_history, enviadas>>

CalcularScoreSantander(c) ==
    /\ fn' = "calcular_score_santander"
    /\ cnpj' = c
    /\ ret' = calcular_score_santander(df_infos, df_transacoes, c)
    /\ UNCHANGED <<df_infos, df_transacoes, df_analisada>>
    /\ UNCHANGED <<cnpj_selecionado, conversation_history, enviadas>>

(* The page "Analise Individual" rendered with company c chosen in the     *)
(* selectbox, which offers the ids present in df_infos: the choice is      *)
(* stored in the session and, the company having no row in                 *)
(* Base_Analisada.csv, the liquidity indicators are computed from its      *)
(* balances.                                                               *)
AnaliseIndividualLiquidez(c) ==
    /\ Len(FiltrarID(df_infos, c)) > 0
    /\ Len(SelectSeq(df_analisada, LAMBDA r : r.ID = c)) = 0
    /\ fn' = "analise_individual"
    /\ cnpj' = c
    /\ cnpj_selecionado' = c
    /\ ret' = analise_individual_liquidez(df_infos, c)
    /\ UNCHANGED <<df_infos, df_transacoes, df_analisada>>
    /\ UNCHANGED <<conversation_history, enviadas>>

(* the two cohorts of the general dashboard, as filtered from the rows of  *)
(* the latest month of Base_Analisada.csv                                  *)
DashboardGeral ==
    /\ fn' = "dashboard_geral"
    /\ cnpj' = 0
    /\ ret' = dashboard_geral(df_analisada)
    /\ UNCHANGED <<df_infos, df_transacoes, df_analisada>>
    /\ UNCHANGED <<cnpj_selecionado, conversation_history, enviadas>>

(* prepare_context called on the loaded tables, with or without a company *)
PrepareContext(c) ==
    /\ fn' = "prepare_context"
    /\ cnpj' = c
    /\ ret' = prepare_context(df_infos, df_transacoes, c)
    /\ UNCHANGED <<df_infos, df_transacoes, df_analisada>>
    /\ UNCHANGED <<cnpj_selecionado, conversation_history, enviadas>>

Escalar(k, values) == [i \in 1..Len(values) |-> k * values[i]]

(* calculate_hhi on the counterparty sums of one side of company c, with   *)
(* every amount of the ledger multiplied by k                              *)
CalculateHhi(c, lado, k) ==
    LET values == IF lado = "pagamento"
                     THEN GroupBySum(Pagamentos(df_transacoes, c), "ID_RCBE")
                     ELSE GroupBySum(Recebimentos(df_transacoes, c), "ID_PGTO")
    IN  /\ fn' = "calculate_hhi"
        /\ cnpj' = c
        /\ ret' = [values |-> values, k |-> k,
                   hhi |-> calculate_hhi(Escalar(k, values))]
        /\ UNCHANGED <<df_infos, df_transacoes, df_analisada>>
        /\ UNCHANGED <<cnpj_selecionado, conversation_history, enviadas>>

Next ==
    \/ \E c \in CNPJS : CalcularMomentoVida(c)
    \/ \E c \in CNPJS : CalcularSaudeEmpresa(c)
    \/ \E c \in CNPJS : CalcularRiscoDependencia(c)
    \/ \E c \in CNPJS : CalcularScoreSantander(c)
    \/ \E c \in CNPJS : AnaliseIndividualLiquidez(c)
    \/ DashboardGeral
    \/ \E c \in CNPJS \cup {None} : PrepareContext(c)
    \/ \E c \in CNPJS, lado \in {"pagamento", "recebimento"}, k \in 1..MaxK :
           CalculateHhi(c, lado, k)

Spec == Init /\ [][Next]_vars

-----------------------------------------------------------------------------
(* The chat history of one SantanderRAG object *)

(* the questions typed, the answers of the language model and the clock    *)
(* reading datetime.now().strftime("%H:%M:%S") of the calls                *)
PERGUNTAS == {"q1", "q2"}

RESPOSTAS == {"a1"}

HORAS == {"12:00:00"}

AddToHistory(question, answer, timestamp) ==
    /\ Len(enviadas) < MaxEnvios
    /\ fn' = "add_to_history"
    /\ cnpj' = None
    /\ ret' = <<>>
    /\ conversation_history' =
           add_to_history(conversation_history,
                          Entrada(timestamp, question, answer))
    /\ enviadas' = Append(enviadas, Entrada(timestamp, question, answer))
    /\ UNCHANGED <<df_infos, df_transacoes, df_analisada, cnpj_selecionado>>

InitHistorico ==
    /\ df_infos = Cenario
    /\ df_transacoes = <<>>
    /\ df_analisada = <<>>
    /\ fn = "__init__"
    /\ cnpj = None
    /\ ret = <<>>
    /\ cnpj_selecionado = None
    /\ conversation_history = <<>>
    /\ enviadas = <<>>

NextHistorico ==
    \E q \in PERGUNTAS, a \in RESPOSTAS, t \in HORAS : AddToHistory(q, a, t)

SpecHistorico == InitHistorico /\ [][NextHistorico]_vars

-----------------------------------------------------------------------------
(* One browser session: the pages main() dispatches to, visited in any     *)
(* order                                                                   *)

(* "Analise Individual" on a table without companies: the selectbox has    *)
(* nothing to offer, None is stored and the page returns                   *)
AnaliseIndividualVazia ==
    /\ Len(df_infos) = 0
    /\ fn' = "analise_individual"
    /\ cnpj' = None
    /\ cnpj_selecionado' = None
    /\ ret' = <<>>
    /\ UNCHANGED <<df_infos, df_transacoes, df_analisada>>
    /\ UNCHANGED <<conversation_history, enviadas>>

(* "Assistente IA" rendered and nothing sent: the tables are put in the    *)
(* session, the SantanderRAG object is created if missing, the history is  *)
(* shown                                                                   *)
AssistenteIA ==
    /\ fn' = "assistente_ia"
    /\ cnpj' = None
    /\ ret' = <<>>
    /\ UNCHANGED <<df_infos, df_transacoes, df_analisada>>
    /\ UNCHANGED <<cnpj_selecionado, conversation_history, enviadas>>

(* the question answered without the company of the session *)
AssistenteIAEnviarSemCnpj(question, answer, timestamp) ==
    /\ Len(enviadas) < MaxPerguntas
    /\ fn' = "create_chat_interface"
    /\ cnpj' = None
    /\ ret' = prepare_context(df_infos, df_transacoes, None)
    /\ conversation_history' =
           add_to_history(conversation_history,
                          Entrada(timestamp, question, answer))
    /\ enviadas' = Append(enviadas, Entrada(timestamp, question, answer))
    /\ UNCHANGED <<df_infos, df_transacoes, df_analisada, cnpj_selecionado>>

(* "Assistente IA" with a question sent: the context is prepared for the   *)
(* company found in the session (None when the key is missing), the        *)
(* language model answers, and question and answer enter the history.      *)
(* cnpj records the company handed to prepare_context, ret the context.    *)
AssistenteIAEnviar(question, answer, timestamp) ==
    /\ Len(enviadas) < MaxPerguntas
    /\ fn' = "create_chat_interface"
    /\ cnpj' = cnpj_selecionado
    /\ ret' = prepare_context(df_infos, df_transacoes, cnpj_selecionado)
    /\ conversation_history' =
           add_to_history(conversation_history,
                          Entrada(timestamp, question, answer))
    /\ enviadas' = Append(enviadas, Entrada(timestamp, question, answer))
    /\ UNCHANGED <<df_infos, df_transacoes, df_analisada, cnpj_selecionado>>

(* "Equipe Quantum": a static page *)
EquipeQuantum ==
    /\ fn' = "equipe_quantum"
    /\ cnpj' = None
    /\ ret' = <<>>
    /\ UNCHANGED <<df_infos, df_transacoes, df_analisada>>
    /\ UNCHANGED <<cnpj_selecionado, conversation_history, enviadas>>

InitSessao ==
    /\ df_infos \in InfosPoucos
    /\ df_transacoes \in {<<>>, Estrela(1, 3000, 0, TRUE)}
    /\ df_analisada = <<>>
    /\ fn = "load_data"
    /\ cnpj = None
    /\ ret = <<>>
    /\ cnpj_selecionado = None
    /\ conversation_history = <<>>
    /\ enviadas = <<>>

NextSessao ==
    \/ DashboardGeral
    \/ \E c \in CNPJS : AnaliseIndividualLiquidez(c)
    \/ AnaliseIndividualVazia
    \/ AssistenteIA
    \/ \E q \in PERGUNTAS, a \in RESPOSTAS, t \in HORAS :
           AssistenteIAEnviar(q, a, t)
    \/ EquipeQuantum

SpecSessao == InitSessao /\ [][NextSessao]_vars

-----------------------------------------------------------------------------
(* Properties *)

(* the balance column the last call worked on, in file order *)
SerieDaChamada == VlSldo(FiltrarID(df_infos, cnpj))

TemRegistros == Len(FiltrarID(df_infos, cnpj)) > 0

(* C1: for a company with at least one monthly record, whatever its        *)
(* balances and revenue, calcular_saude_empresa returns a score s with     *)
(* 0 <= s <= 100.                                                          *)
C1_SaudeEntre0e100 ==
    (fn = "calcular_saude_empresa" /\ TemRegistros)
        => /\ Ge(ret.score_final, I(0))
           /\ Le(ret.score_final, I(100))

(* a one-row series with a non-zero balance: the volatility is NaN *)
C1_Witness ==
    /\ fn = "calcular_saude_empresa"
    /\ TemRegistros
    /\ CvSaldo(SerieDaChamada) = NaN
    /\ IsNum(ret.score_final)

FAIXAS == {0, 5, 10, 15, 20}

DIMENSOES == {"Liquidez", "Relacionamentos", "Tendencias", "Atividade", "Risco"}

DetalhamentoConforme ==
    LET d == ret.detalhamento
    IN  /\ (DIMENSOES \cup {"Total"}) \subseteq DOMAIN d
        /\ \A k \in DIMENSOES : d[k] \in FAIXAS
        /\ ret.score_total = d.Liquidez + d.Relacionamentos + d.Tendencias
                             + d.Atividade + d.Risco
        /\ ret.score_total \in 0..100
        /\ d.Total = ret.score_total

(* C2 as stated: for every input, the total of calcular_score_santander is *)
(* the sum of the five tiers, each in {0,5,10,15,20}, lies in [0,100] and  *)
(* equals the 'Total' entry of the returned breakdown.                     *)
C2_TotalSomaDasFaixasSempre ==
    fn = "calcular_score_santander" => DetalhamentoConforme

(* C2 amended: the same for every company with at least one monthly        *)
(* record; for an id without records the function returns total 0 and an   *)
(* empty breakdown, which has no tier and no 'Total' entry.                *)
C2_TotalSomaDasFaixas ==
    fn = "calcular_score_santander"
        => IF TemRegistros THEN DetalhamentoConforme
           ELSE ret.score_total = 0 /\ ret.detalhamento = <<>>

(* every dimension scores *)
C2_Witness ==
    /\ fn = "calcular_score_santander"
    /\ TemRegistros
    /\ \A k \in DIMENSOES : ret.detalhamento[k] > 0

(* C3: calculate_hhi returns 0 for an empty collection of counterparty     *)
(* sums and 0 when the sum of the values is 0, a plain number in both      *)
(* cases (no division by zero).                                            *)
C3_HhiZero ==
    (fn = "calculate_hhi"
        /\ (Len(ret.values) = 0 \/ Soma(Escalar(ret.k, ret.values)) = 0))
        => ret.hhi = I(0)

(* counterparties exist but their sums add up to 0 *)
C3_Witness ==
    /\ fn = "calculate_hhi"
    /\ Len(ret.values) > 0
    /\ Soma(Escalar(ret.k, ret.values)) = 0
    /\ ret.hhi = I(0)

TodosPositivos(values) == \A i \in 1..Len(values) : values[i] > 0

(* C4: for a non-empty collection of strictly positive counterparty sums,  *)
(* calculate_hhi returns h with 0 < h <= 1, and h = 1 exactly when there   *)
(* is a single counterparty.                                               *)
C4_HhiIntervalo ==
    (fn = "calculate_hhi" /\ Len(ret.values) > 0 /\ TodosPositivos(ret.values))
        => /\ Gt(ret.hhi, I(0))
           /\ Le(ret.hhi, I(1))
           /\ (ret.hhi = I(1) <=> Len(ret.values) = 1)

C4_Witness ==
    /\ fn = "calculate_hhi"
    /\ Len(ret.values) >= 2
    /\ TodosPositivos(ret.values)
    /\ Gt(ret.hhi, I(0))
    /\ Lt(ret.hhi, I(1))

(* C5: calculate_hhi is scale-invariant: the index of the counterparty     *)
(* sums multiplied by a positive constant k equals the index of the sums.  *)
C5_HhiEscala ==
    fn = "calculate_hhi" => ret.hhi = calculate_hhi(ret.values)

C5_Witness ==
    /\ fn = "calculate_hhi"
    /\ ret.k >= 2
    /\ Len(ret.values) >= 2
    /\ TodosPositivos(ret.values)
    /\ ret.values[1] # ret.values[2]
    /\ ret.hhi = calculate_hhi(ret.values)

(* the month-over-month falls of a series, 0 where the balance did not fall *)
Quedas(s) ==
    [i \in 1..(Len(s) - 1) |-> IF s[i + 1] < s[i] THEN s[i] - s[i + 1] ELSE 0]

NumQuedas(s) == Cardinality({i \in 1..(Len(s) - 1) : s[i + 1] < s[i]})

LiquidezConforme(s, burn, runway) ==
    IF NumQuedas(s) = 0
    THEN burn = I(0) /\ runway = Inf
    ELSE /\ IsNum(burn)
         /\ burn.n * NumQuedas(s) = Soma(Quedas(s)) * burn.d
         /\ IsNum(runway)
         /\ runway.n * burn.n = s[Len(s)] * burn.d * runway.d

C7_FlagStress ==
    fn = "analise_individual"
        => (ret.flag_stress_caixa <=>
                \/ ret.saldo_atual < 0
                \/ Lt(ret.runway_meses, I(3))
                \/ (ret.saldo_atual > 0
                    /\ Gt(ret.burn_rate_mes, Q(ret.saldo_atual, 2))))

(* a non-positive balance with a burn rate above half of it *)
C7_Witness ==
    /\ fn = "analise_individual"
    /\ ret.saldo_atual <= 0
    /\ Gt(ret.burn_rate_mes, I(0))
    /\ Gt(ret.burn_rate_mes, Q(ret.saldo_atual, 2))
    /\ ret.flag_stress_caixa

(* the five rules of the life-stage ladder on the series of the last call; *)
(* growth and volatility exist only for a non-empty series                 *)
Regra(i) ==
    LET s == SerieDaChamada
    IN  CASE i = 1 -> Len(s) <= 2
          [] i = 2 -> Len(s) > 0 /\ Gt(Crescimento(s), I(20))
                                 /\ Lt(CvSaldo(s), Q(3, 10))
          [] i = 3 -> Len(s) > 0 /\ Gt(Crescimento(s), I(0))
                                 /\ Lt(CvSaldo(s), Q(5, 10))
          [] i = 4 -> Len(s) > 0 /\ Lt(Crescimento(s), I(-10))
          [] i = 5 -> TRUE

ResultadoDaRegra ==
    << [momento |-> "Iniciante", score |-> 20],
       [momento |-> "Desenvolvimento", score |-> 80],
       [momento |-> "Madura", score |-> 60],
       [momento |-> "Declinio", score |-> 20],
       [momento |-> "Madura", score |-> 50] >>

PrimeiraRegra == CHOOSE i \in 1..5 : Regra(i) /\ \A j \in 1..(i - 1) : ~Regra(j)

LadderConforme ==
    /\ ret = ResultadoDaRegra[PrimeiraRegra]
    /\ (Regra(2) /\ Regra(3) /\ ~Regra(1) => ret.score = 80)
    /\ ret.score \in {20, 50, 60, 80}

(* C8 as stated: calcular_momento_vida returns the result of the first     *)
(* matching rule among (1) age <= 2 Starting/20, (2) growth > 20 and       *)
(* cv < 0.3 Growing/80, (3) growth > 0 and cv < 0.5 Mature/60,             *)
(* (4) growth < -10 Declining/20, (5) Mature/50, and the returned score is *)
(* always in {20,50,60,80}.                                                *)
C8_LadderSempre ==
    fn = "calcular_momento_vida" => LadderConforme

(* C8 amended: the same for every company with at least one monthly        *)
(* record; an id without records is not classified and gets ("N/A", 0).    *)
C8_Ladder ==
    fn = "calcular_momento_vida"
        => IF TemRegistros THEN LadderConforme
           ELSE ret = [momento |-> "N/A", score |-> 0]

(* rules 2 and 3 both match *)
C8_Witness ==
    /\ fn = "calcular_momento_vida"
    /\ ~Regra(1) /\ Regra(2) /\ Regra(3)
    /\ ret = [momento |-> "Desenvolvimento", score |-> 80]

(* C9: a company with exactly one monthly record is classified Starting    *)
(* ("Iniciante") with score 20 whatever its balance.                       *)
C9_UmRegistroIniciante ==
    (fn = "calcular_momento_vida" /\ Len(SerieDaChamada) = 1)
        => ret = [momento |-> "Iniciante", score |-> 20]

(* one row, non-zero balance: the standard deviation is undefined *)
C9_Witness ==
    /\ fn = "calcular_momento_vida"
    /\ Len(SerieDaChamada) = 1
    /\ CvSaldo(SerieDaChamada) = NaN
    /\ ret.momento = "Iniciante"

ChamadaNoCenario == cnpj = 1 /\ FiltrarID(df_infos, 1) = Cenario

(* C10: for balances [100000, 110000, 121000] and revenue 500000 (here in  *)
(* thousands) calcular_momento_vida returns "Desenvolvimento" with score   *)
(* 80 and the growth sub-score of calcular_saude_empresa is 92.            *)
C10_Cenario ==
    /\ (fn = "calcular_momento_vida" /\ ChamadaNoCenario)
           => ret = [momento |-> "Desenvolvimento", score |-> 80]
    /\ (fn = "calcular_saude_empresa" /\ ChamadaNoCenario)
           => ret.score_crescimento = I(92)

C10_Witness ==
    /\ fn = "calcular_saude_empresa"
    /\ ChamadaNoCenario
    /\ Crescimento(SerieDaChamada) = I(21)
    /\ ret.score_crescimento = I(92)

(* the rows of the ledger in which the company of the last call takes part *)
TransacoesDaChamada ==
    SelectSeq(df_transacoes, LAMBDA r : r.ID_PGTO = cnpj \/ r.ID_RCBE = cnpj)

TemTransacoes == Len(TransacoesDaChamada) > 0

(* C11: a company whose whole transaction volume flows through exactly one *)
(* counterparty, in whatever direction, has an averaged HHI of 1 in        *)
(* calcular_risco_dependencia and is rated "Alto".                         *)
C11_UmParceiroHhiUm ==
    (fn = "calcular_risco_dependencia" /\ TemTransacoes
        /\ ret.num_parceiros = 1 /\ ret.volume_total > 0)
        => /\ ret.hhi_medio = I(1)
           /\ ret.categoria = "Alto"

DefaultNeutro ==
    CASE fn = "calcular_saude_empresa" ->
             ret = [score_final |-> I(0), categoria |-> "N/A"]
      [] fn = "calcular_risco_dependencia" ->
             ret = [score_final |-> I(0), categoria |-> "N/A"]
      [] fn = "calcular_momento_vida" ->
             ret = [momento |-> "N/A", score |-> 0]
      [] fn = "calcular_score_santander" ->
             ret = [score_total |-> 0, detalhamento |-> <<>>]

SCORERS ==
    {"calcular_saude_empresa", "calcular_risco_dependencia",
     "calcular_momento_vida", "calcular_score_santander"}

(* C12 as stated: for an id absent from the monthly records each of the    *)
(* four scorers returns its neutral default (score 0, category "N/A"),     *)
(* whatever the ledger holds for that id.                                  *)
C12_AusenteDefaultSempre ==
    (fn \in SCORERS /\ ~TemRegistros) => DefaultNeutro

(* C12 amended: for an id absent from the monthly records                  *)
(* calcular_saude_empresa, calcular_momento_vida and                       *)
(* calcular_score_santander return their neutral default whatever the      *)
(* ledger holds; calcular_risco_dependencia never reads the monthly        *)
(* records and returns its neutral default when the id has no transaction. *)
C12_AusenteDefault ==
    /\ (fn \in SCORERS \ {"calcular_risco_dependencia"} /\ ~TemRegistros)
           => DefaultNeutro
    /\ (fn = "calcular_risco_dependencia" /\ ~TemTransacoes)
           => DefaultNeutro

(* an id without monthly records that does have transactions *)
C12_Witness ==
    /\ fn = "calcular_momento_vida"
    /\ ~TemRegistros
    /\ TemTransacoes
    /\ ret = [momento |-> "N/A", score |-> 0]

(* the rows of a returned frame, as a set *)
LinhasDoFrame(frame) == {frame[i] : i \in 1..Len(frame)}

LinhasAnalisadas == LinhasDoFrame(df_analisada)

DoUltimoMes(r) == \A q \in LinhasAnalisadas : q.MES <= r.MES

RunwayIndefinido(r) == r.runway_meses.t = "nan"

(* the six predicates of the "ideal for credit" cohort *)
SeisPredicadosIdeal(r) ==
    /\ Ge(r.score_saude_model_0_100_lgbm, r.q25_health)
    /\ Lt(r.score_dependencia_risco_0_100, r.q75_risk)
    /\ ~RunwayIndefinido(r) /\ ~Lt(r.runway_meses, I(1))
    /\ r.flag_stress_caixa = 0
    /\ Gt(r.grow_volume_total_mes, I(0))
    /\ r.estado_maturidade_hard \in {"Madura", "Desenvolvimento"}

(* C14: a row of the latest month is in the "ideal for credit" cohort      *)
(* exactly when health >= q25_health, risk < q75_risk, runway >= 1, stress *)
(* flag = 0, volume growth > 0 and the life stage is Madura or             *)
(* Desenvolvimento; a row with NaN runway is never in the cohort, and the  *)
(* cohort holds rows of the latest month only.                             *)
C14_CoorteIdeal ==
    fn = "dashboard_geral" =>
        /\ \A r \in LinhasAnalisadas :
               DoUltimoMes(r) =>
                   /\ (r \in LinhasDoFrame(ret.empresas_ideais))
                          <=> SeisPredicadosIdeal(r)
                   /\ RunwayIndefinido(r)
                          => r \notin LinhasDoFrame(ret.empresas_ideais)
        /\ \A r \in LinhasDoFrame(ret.empresas_ideais) :
               r \in LinhasAnalisadas /\ DoUltimoMes(r)

(* a cohort with a row whose runway is exactly 1, next to rows with NaN    *)
(* runway and an earlier-month row that would pass the filter              *)
C14_Witness ==
    /\ fn = "dashboard_geral"
    /\ \E r \in LinhasDoFrame(ret.empresas_ideais) : r.runway_meses = I(1)
    /\ \E r \in LinhasAnalisadas : DoUltimoMes(r) /\ RunwayIndefinido(r)
    /\ \E r \in LinhasAnalisadas : ~DoUltimoMes(r) /\ SeisPredicadosIdeal(r)

(* the six predicates of the "high risk" cohort *)
SeisPredicadosPerigo(r) ==
    /\ Le(r.score_saude_model_0_100_lgbm, r.q25_health)
    /\ Ge(r.score_dependencia_risco_0_100, r.q75_risk)
    /\ (RunwayIndefinido(r) \/ ~Ge(r.runway_meses, I(3)))
    /\ r.flag_stress_caixa = 1
    /\ Lt(r.grow_volume_total_mes, I(0))
    /\ r.estado_maturidade_hard \in {"Declinio", "Declinio Persistente"}

Clip(x) ==
    IF ~IsNum(x) THEN x
    ELSE IF Lt(x, I(0)) THEN I(0)
    ELSE IF Gt(x, I(100)) THEN I(100)
    ELSE x

LinhasDaChamada == FiltrarID(df_infos, cnpj)

(* the four sub-scores of the health formula, from the snapshot *)
SubG == Clip(Add(I(50), Mul(I(2), Crescimento(SerieDaChamada))))

SubS == Clip(Sub(I(100), Mul(I(100), CvSaldo(SerieDaChamada))))

SubP ==
    LET balance == SerieDaChamada[Len(SerieDaChamada)]
        revenue == LinhasDaChamada[1].VL_FATU
    IN  IF revenue = 0 THEN I(0) ELSE Clip(Q(50 * balance, revenue))

SubT ==
    LET n    == Len(SerieDaChamada)
        sobe == {i \in 1..(n - 1) : SerieDaChamada[i + 1] > SerieDaChamada[i]}
    IN  IF n < 2 THEN I(50) ELSE Q(100 * Cardinality(sobe), n - 1)

Ponderado(G, S, P, T) ==
    Clip(Add(Add(Mul(Q(30, 100), G), Mul(Q(25, 100), S)),
             Add(Mul(Q(25, 100), P), Mul(Q(20, 100), T))))

FaixaSaude(score) ==
    CASE IsNum(score) /\ score.n >= 80 * score.d -> "Alta"
      [] IsNum(score) /\ score.n >= 60 * score.d /\ score.n < 80 * score.d
             -> "Media"
      [] OTHER -> "Baixa"

(* C16 as stated: with at least one record the health score is             *)
(* clip(0.30*G + 0.25*S + 0.25*P + 0.20*T, 0, 100) with                    *)
(* S = clip(100 - 100*cv, 0, 100) for every series, and the category       *)
(* follows the 80 / 60 thresholds.                                         *)
C16_FormulaSaudeSempre ==
    (fn = "calcular_saude_empresa" /\ TemRegistros) =>
        /\ ret.score_final = Ponderado(SubG, SubS, SubP, SubT)
        /\ ret.categoria = FaixaSaude(ret.score_final)

(* C16 amended: the same formula, with S = 0 when cv is undefined (one     *)
(* record with a non-zero balance).                                        *)
C16_FormulaSaude ==
    (fn = "calcular_saude_empresa" /\ TemRegistros) =>
        LET S == IF IsNum(CvSaldo(SerieDaChamada)) THEN SubS ELSE I(0)
        IN  /\ ret.score_final = Ponderado(SubG, S, SubP, SubT)
            /\ ret.categoria = FaixaSaude(ret.score_final)

(* a series of several records with a defined cv, a balance position and a *)
(* stability strictly inside (0, 100) and a score in the middle band       *)
C16_Witness ==
    /\ fn = "calcular_saude_empresa"
    /\ TemRegistros
    /\ Len(SerieDaChamada) >= 2
    /\ Gt(ret.score_posicao, I(0)) /\ Lt(ret.score_posicao, I(100))
    /\ Gt(ret.score_estabilidade, I(0)) /\ Lt(ret.score_estabilidade, I(100))
    /\ ret.score_tendencia = I(100)
    /\ ret.categoria = "Media"

(* the inputs of the dependency formula, from the snapshot *)
HhiAvg ==
    LET pagos     == GroupBySum(Pagamentos(TransacoesDaChamada, cnpj), "ID_RCBE")
        recebidos == GroupBySum(Recebimentos(TransacoesDaChamada, cnpj), "ID_PGTO")
    IN  Mul(Q(1, 2), Add(calculate_hhi(pagos), calculate_hhi(recebidos)))

FormulaRisco(hhi_avg, num_partners, total_volume) ==
    Clip(Add(Add(Mul(Q(50, 100), Mul(hhi_avg, I(100))),
                 Mul(Q(30, 100), Clip(I(100 - 3 * num_partners)))),
             Mul(Q(20, 100), Clip(Sub(I(100), Q(total_volume, 100))))))

FaixaRisco(score) ==
    CASE score.n >= 70 * score.d -> "Alto"
      [] score.n >= 40 * score.d /\ score.n < 70 * score.d -> "Medio"
      [] OTHER -> "Baixo"

(* increments of the partner count and of the volume (in thousands) *)
MAIS_PARCEIROS == {1, 5, 40}

MAIS_VOLUME == {1, 500, 20000}

(* C17: with at least one transaction the dependency score is              *)
(* clip(0.50*(HHI_avg*100) + 0.30*clip(100 - 3*num_partners, 0, 100)       *)
(* + 0.20*clip(100 - total_volume/100000, 0, 100), 0, 100), the category   *)
(* follows the 70 / 40 thresholds, and the score does not grow when the    *)
(* partner count or the total volume grows.                                *)
C17_FormulaRisco ==
    (fn = "calcular_risco_dependencia" /\ TemTransacoes) =>
        LET n == NumParceiros(TransacoesDaChamada, cnpj)
            v == VolumeTotal(TransacoesDaChamada, cnpj)
        IN  /\ ret.score_final = FormulaRisco(HhiAvg, n, v)
            /\ ret.categoria = FaixaRisco(ret.score_final)
            /\ \A dn \in MAIS_PARCEIROS :
                   Le(ScoreFinalRisco(HhiAvg, n + dn, v), ret.score_final)
            /\ \A dv \in MAIS_VOLUME :
                   Le(ScoreFinalRisco(HhiAvg, n, v + dv), ret.score_final)

(* several partners, a positive volume below the cap and a score in the    *)
(* middle band, which one more partner or more volume strictly lowers      *)
C17_Witness ==
    /\ fn = "calcular_risco_dependencia"
    /\ TemTransacoes
    /\ ret.num_parceiros >= 2
    /\ ret.volume_total > 0
    /\ ret.categoria = "Medio"
    /\ Lt(ScoreFinalRisco(ret.hhi_medio, ret.num_parceiros + 1,
                          ret.volume_total), ret.score_final)
    /\ Lt(ScoreFinalRisco(ret.hhi_medio, ret.num_parceiros,
                          ret.volume_total + 500), ret.score_final)

SaldoAtualDaChamada == SerieDaChamada[Len(SerieDaChamada)]

(* runway > k, for a runway that is a number or +infinity *)
RunwayAcima(runway, k) ==
    \/ runway.t = "inf"
    \/ runway.t = "num" /\ runway.n > k * runway.d

(* the Liquidity tier as a partition of (balance, runway) *)
TierLiquidez(balance, runway) ==
    CASE balance > 0 /\ RunwayAcima(runway, 12) -> 20
      [] balance > 0 /\ RunwayAcima(runway, 6) /\ ~RunwayAcima(runway, 12) -> 15
      [] balance > 0 /\ RunwayAcima(runway, 3) /\ ~RunwayAcima(runway, 6) -> 10
      [] balance > 0 /\ ~RunwayAcima(runway, 3) -> 5
      [] balance <= 0 -> 0

RUNWAYS ==
    {I(0), I(1), I(3), Q(7, 2), I(6), Q(13, 2), I(12), Q(25, 2), I(100), Inf}

(* C18: the Liquidity tier is the first rule that holds of                 *)
(* balance > 0 and runway > 12 -> 20, > 6 -> 15, > 3 -> 10,                *)
(* balance > 0 -> 5, otherwise 0; a positive balance with burn rate 0      *)
(* (runway +infinity) gets 20; for a positive balance the tier does not    *)
(* fall when the runway grows.                                             *)
C18_TierLiquidez ==
    (fn = "calcular_score_santander" /\ TemRegistros) =>
        LET b == SaldoAtualDaChamada
            t == ret.detalhamento.Liquidez
        IN  /\ t = TierLiquidez(b, ret.runway)
            /\ (b > 0 /\ ret.burn_rate = I(0)) => (ret.runway = Inf /\ t = 20)
            /\ b > 0 =>
                   \A r \in RUNWAYS :
                       /\ Ge(r, ret.runway) => ScoreLiquidez(b, r) >= t
                       /\ Le(r, ret.runway) => ScoreLiquidez(b, r) <= t

(* a positive balance with a finite runway between 6 and 12 months *)
C18_Witness ==
    /\ fn = "calcular_score_santander"
    /\ TemRegistros
    /\ SaldoAtualDaChamada > 0
    /\ IsNum(ret.runway)
    /\ ret.detalhamento.Liquidez = 15

VariacaoDaChamada == SaldoAtualDaChamada - SerieDaChamada[1]

CvAbaixo(cv, num, den) == cv.t = "num" /\ cv.n * den < num * cv.d

(* the Trend tier as a partition of (balance_change, balance, cv) *)
TierTendencia(balance_change, current_balance, cv) ==
    CASE balance_change > 0 /\ CvAbaixo(cv, 2, 10) -> 20
      [] balance_change > 0 /\ ~CvAbaixo(cv, 2, 10) /\ CvAbaixo(cv, 4, 10) -> 15
      [] balance_change > 0 /\ ~CvAbaixo(cv, 4, 10) -> 10
      [] balance_change <= 0 /\ 10 * balance_change > -current_balance -> 5
      [] OTHER -> 0

(* C19: the Trend tier is 20 for balance_change > 0 and cv < 0.2, 15 for   *)
(* balance_change > 0 and cv < 0.4, 10 for balance_change > 0; otherwise 5 *)
(* exactly when balance_change > -0.1 * current_balance, else 0; so        *)
(* balance_change <= 0 with a current balance <= 0 always gives 0.         *)
C19_TierTendencia ==
    (fn = "calcular_score_santander" /\ TemRegistros) =>
        LET t == ret.detalhamento.Tendencias
        IN  /\ t = TierTendencia(VariacaoDaChamada, SaldoAtualDaChamada,
                                 CvSaldo(SerieDaChamada))
            /\ (VariacaoDaChamada <= 0 /\ SaldoAtualDaChamada <= 0) => t = 0

(* a decline of less than 10% of the current balance *)
C19_Witness ==
    /\ fn = "calcular_score_santander"
    /\ TemRegistros
    /\ VariacaoDaChamada < 0
    /\ ret.detalhamento.Tendencias = 5

Finito0a100(x) == x.t = "num" /\ x.n >= 0 /\ x.n <= 100 * x.d

(* C20: with at least one record, a one-record series, a zero mean         *)
(* balance, a zero revenue and a zero burn rate included, the health score *)
(* and its four sub-scores are finite numbers in [0,100] and the credit    *)
(* score and its tiers are finite numbers.                                 *)
C20_SemNaNNemInfinito ==
    /\ (fn = "calcular_saude_empresa" /\ TemRegistros) =>
           /\ Finito0a100(ret.score_final)
           /\ Finito0a100(ret.score_crescimento)
           /\ Finito0a100(ret.score_estabilidade)
           /\ Finito0a100(ret.score_posicao)
           /\ Finito0a100(ret.score_tendencia)
    /\ (fn = "calcular_score_santander" /\ TemRegistros) =>
           /\ ret.score_total \in 0..100
           /\ \A dim \in DIMENSOES : ret.detalhamento[dim] \in 0..20

(* a credit score computed with an undefined volatility and an infinite    *)
(* runway: one record, non-zero balance, zero revenue                      *)
C20_Witness ==
    /\ fn = "calcular_score_santander"
    /\ Len(SerieDaChamada) = 1
    /\ LinhasDaChamada[1].VL_FATU = 0
    /\ CvSaldo(SerieDaChamada) = NaN
    /\ ret.runway = Inf
    /\ ret.score_total \in 0..100

(* C21: a call of calcular_momento_vida, calcular_saude_empresa,           *)
(* calcular_risco_dependencia or calcular_score_santander, for any id and  *)
(* after any calls before it, leaves the records table, the transactions   *)
(* table and every other state shared between calls as they were.          *)
C21_SnapshotInalterado ==
    [][fn' \in SCORERS =>
           /\ UNCHANGED <<df_infos, df_transacoes, df_analisada>>
           /\ UNCHANGED <<cnpj_selecionado, conversation_history, enviadas>>]_vars

(* a scorer has run on a table that holds the rows of another company too  *)
C21_Witness ==
    /\ fn = "calcular_momento_vida"
    /\ TemRegistros
    /\ FiltrarID(df_infos, cnpj) # df_infos
    /\ ret.momento # "N/A"

(* C22: for every company prepare_context reports on, the partner count,   *)
(* the total transaction volume, the average HHI, the burn rate and the    *)
(* runway it derives are the values calcular_risco_dependencia and         *)
(* calcular_score_santander compute for that company on the same tables.   *)
C22_RagIgualDashboard ==
    fn = "prepare_context" =>
        \A c \in DOMAIN ret.top :
            LET m      == ret.top[c]
                t      == SelectSeq(df_transacoes,
                              LAMBDA r : r.ID_PGTO = c \/ r.ID_RCBE = c)
                credit == calcular_score_santander(df_infos, df_transacoes, c)
            IN  /\ m.num_relacionamentos = NumParceiros(t, c)
                /\ m.volume_transacoes = VolumeTotal(t, c)
                /\ m.hhi_medio = HhiMedio(t, c)
                /\ m.burn_rate = credit.burn_rate
                /\ m.runway = credit.runway

(* the rows of the company of the last call, ordered by period *)
LinhasPorPeriodo == SortDtRefe(FiltrarID(df_infos, cnpj))

(* C23: calcular_momento_vida, calcular_saude_empresa and                  *)
(* calcular_score_santander take the first and the current balance and the *)
(* deltas from the rows in period order, so the result on the table as     *)
(* stored is the result on the same rows ordered by period.                *)
C23_OrdemDasLinhas ==
    /\ (fn = "calcular_momento_vida" /\ TemRegistros) =>
           ret = calcular_momento_vida(LinhasPorPeriodo, cnpj)
    /\ (fn = "calcular_saude_empresa" /\ TemRegistros) =>
           ret = calcular_saude_empresa(LinhasPorPeriodo, df_transacoes, cnpj)
    /\ (fn = "calcular_score_santander" /\ TemRegistros) =>
           ret = calcular_score_santander(LinhasPorPeriodo, df_transacoes, cnpj)

(* C24: as the liquidity methodology shown in the page says, the runway    *)
(* computed for a negative current balance is 0, and for a burn rate of 0  *)
(* (the balance not being negative) it is infinite; in analise_individual  *)
(* and in calcular_score_santander alike.                                  *)
C24_RunwayZeroSaldoNegativo ==
    /\ fn = "analise_individual" =>
           /\ ret.saldo_atual < 0 => ret.runway_meses = I(0)
           /\ (ret.saldo_atual >= 0 /\ ret.burn_rate_mes = I(0))
                  => ret.runway_meses = Inf
    /\ (fn = "calcular_score_santander" /\ TemRegistros) =>
           /\ SaldoAtualDaChamada < 0 => ret.runway = I(0)
           /\ (SaldoAtualDaChamada >= 0 /\ ret.burn_rate = I(0))
                  => ret.runway = Inf

(* C25: after n calls of add_to_history the conversation history is the    *)
(* min(n, 10) entries added last, in the order they were added; it never   *)
(* holds more than 10 and the entry dropped is the oldest.                 *)
C25_UltimasDez ==
    LET n == Len(enviadas)
        k == IF n < 10 THEN n ELSE 10
    IN  /\ Len(conversation_history) = k
        /\ Len(conversation_history) <= 10
        /\ \A i \in 1..k : conversation_history[i] = enviadas[n - k + i]

(* more than 10 calls, the first entry gone from a history that starts     *)
(* with a different entry                                                  *)
C25_Witness ==
    /\ fn = "add_to_history"
    /\ Len(enviadas) > 10
    /\ Len(conversation_history) = 10
    /\ conversation_history[1] # enviadas[1]
    /\ conversation_history[10] = enviadas[Len(enviadas)]

(* C26: over any sequence of page visits of a session, the selected        *)
(* company is None until "Analise Individual" is rendered, is the company  *)
(* chosen there after each rendering, and is changed by no other page, the *)
(* chat page included; a question sent on the chat page has its context    *)
(* prepared for that company, with a company section about it, and with no *)
(* company and no company section while it is None.                        *)
C26_EmpresaDaSessao ==
    /\ cnpj_selecionado = None
    /\ [][/\ fn' = "analise_individual" => cnpj_selecionado' = cnpj'
          /\ fn' # "analise_individual" =>
                 cnpj_selecionado' = cnpj_selecionado
          /\ fn' = "create_chat_interface" =>
                 /\ cnpj' = cnpj_selecionado
                 /\ cnpj_selecionado = None => ret'.especifico = <<>>
                 /\ ret'.especifico # <<>> =>
                        ret'.especifico.cnpj = cnpj_selecionado]_vars

(* a table with companies 1 and 2, company 2 the one selected, and a       *)
(* question sent on the chat page: the company section is about company 2  *)
C26_Witness ==
    /\ fn = "create_chat_interface"
    /\ cnpj_selecionado = 2
    /\ Len(FiltrarID(df_infos, 1)) > 0
    /\ Len(enviadas) = 1
    /\ ret.especifico # <<>>
    /\ ret.especifico.cnpj = 2

(* C27: the stress flag of the individual page equals (balance < 0 or      *)
(* runway < 3): its third disjunct, burn rate above half the balance,      *)
(* never decides; for a company with one record the flag equals            *)
(* (balance < 0).                                                          *)
C27_TerceiroDisjuntoRedundante ==
    (fn = "analise_individual" /\ cnpj # None) =>
        /\ Ge(ret.burn_rate_mes, I(0))
        /\ ret.runway_meses =
               (IF Gt(ret.burn_rate_mes, I(0))
                THEN Mul(I(ret.saldo_atual), Q(ret.burn_rate_mes.d,
                                               ret.burn_rate_mes.n))
                ELSE Inf)
        /\ ret.flag_stress_caixa =
               (ret.saldo_atual < 0 \/ Lt(ret.runway_meses, I(3)))
        /\ Len(FiltrarID(df_infos, cnpj)) = 1 =>
               ret.flag_stress_caixa = (ret.saldo_atual < 0)

(* the third disjunct is true on a balance that is not negative, and the   *)
(* runway is below 3                                                       *)
C27_Witness ==
    /\ fn = "analise_individual"
    /\ cnpj # None
    /\ ret.saldo_atual >= 0
    /\ Gt(ret.burn_rate_mes, Q(ret.saldo_atual, 2))
    /\ Lt(ret.runway_meses, I(3))
    /\ ret.flag_stress_caixa

(* C28: in every credit-score breakdown the Liquidez tier is 0 exactly     *)
(* when the Risco tier is 0, exactly when the current balance is <= 0; a   *)
(* company whose current balance is <= 0 has a total of at most 60.        *)
C28_LiquidezZeroRiscoZero ==
    (fn = "calcular_score_santander" /\ TemRegistros) =>
        LET d == ret.detalhamento
        IN  /\ (d.Liquidez = 0) <=> (d.Risco = 0)
            /\ (d.Risco = 0) <=> (SaldoAtualDaChamada <= 0)
            /\ SaldoAtualDaChamada <= 0 => ret.score_total <= 60

(* a balance of exactly 0 after growth: both tiers 0, the Tendencias tier  *)
(* above 0                                                                 *)
C28_Witness ==
    /\ fn = "calcular_score_santander"
    /\ TemRegistros
    /\ SaldoAtualDaChamada = 0
    /\ ret.detalhamento.Liquidez = 0
    /\ ret.detalhamento.Risco = 0
    /\ ret.detalhamento.Tendencias > 0

(* C29: in every credit-score breakdown a Risco tier of 10 or more comes   *)
(* with a Liquidez tier of 10 or more, and a Risco tier of 20 with a       *)
(* Liquidez tier of 15 or more: a burn rate below 30% of a positive        *)
(* balance leaves a runway above 3 months.                                 *)
C29_RiscoImplicaLiquidez ==
    (fn = "calcular_score_santander" /\ TemRegistros) =>
        LET d == ret.detalhamento
        IN  /\ d.Risco >= 10 => d.Liquidez >= 10
            /\ d.Risco = 20 => d.Liquidez >= 15
            /\ (SaldoAtualDaChamada > 0
                  /\ Lt(ret.burn_rate, Q(3 * SaldoAtualDaChamada, 10))) =>
                   Gt(ret.runway, I(3))

(* a burn rate above 0 and below 30% of the balance: Risco 10, a finite    *)
(* runway and Liquidez 10                                                  *)
C29_Witness ==
    /\ fn = "calcular_score_santander"
    /\ TemRegistros
    /\ Gt(ret.burn_rate, I(0))
    /\ IsNum(ret.runway)
    /\ ret.detalhamento.Risco = 10
    /\ ret.detalhamento.Liquidez = 10

(* C30: the "ideal for credit" and the "high risk" cohorts that             *)
(* dashboard_geral computes over the latest month share no row, a row      *)
(* whose health equals q25_health (which passes the health test of both    *)
(* filters) included.                                                      *)
C30_CoortesDisjuntas ==
    fn = "dashboard_geral" =>
        /\ LinhasDoFrame(ret.empresas_ideais)
               \cap LinhasDoFrame(ret.empresas_perigosas) = {}
        /\ {r.ID : r \in LinhasDoFrame(ret.empresas_ideais)}
               \cap {r.ID : r \in LinhasDoFrame(ret.empresas_perigosas)} = {}

(* both cohorts hold a row whose health equals q25_health *)
C30_Witness ==
    /\ fn = "dashboard_geral"
    /\ \E r \in LinhasDoFrame(ret.empresas_ideais) :
           r.score_saude_model_0_100_lgbm = r.q25_health
    /\ \E r \in LinhasDoFrame(ret.empresas_perigosas) :
           r.score_saude_model_0_100_lgbm = r.q25_health

=============================================================================
